---------------------------- MODULE Spec2Model ----------------------------
(***************************************************************************)
(* Model of src/app.py: the AIMatchmakingSystem (SQLite-backed store of    *)
(* students, internships and interactions, the content-based scorer, the   *)
(* ranker and the analytics aggregation) and the Flask routes that call it. *)
(*                                                                         *)
(* Representation choices                                                  *)
(*  - A Python str on which the code calls .lower() (skill labels and      *)
(*    experience levels) is a sequence of ASCII codes, so that lower() is  *)
(*    computed character by character.  Other strings (identifiers, names, *)
(*    locations, industries) are only compared for equality and are TLA+   *)
(*    strings.                                                             *)
(*  - A SQLite table is the sequence of its rows in rowid order, which is  *)
(*    the order a SELECT without ORDER BY scans a rowid table.             *)
(*  - A JSON text is the sequence of its tokens.                           *)
(*  - A GPA is counted in tenths (3.8 is 38).                              *)
(*  - A Python float in [0, 1] is an exact fraction [num, den] in lowest   *)
(*    terms.  IEEE rounding is monotone, so the float the code computes is *)
(*    within [0.0, 1.0] whenever the fraction is: the all-ones score       *)
(*    0.4 + 0.2 + 0.2 + 0.1 + 0.1 evaluates to exactly 1.0 in binary64.    *)
(*  - An optional value (rating, the row of fetchone) is a sequence of     *)
(*    length at most 1; None is <<>>.                                      *)
(***************************************************************************)
EXTENDS Integers, Sequences, FiniteSets

VARIABLES
    students,             \* self.students, the in-memory list
    internships,          \* self.internships, the in-memory list
    interaction_history,  \* self.interaction_history
    db_students,          \* table students of internship_matching.db
    db_internships,       \* table internships
    db_interactions,      \* table interactions
    clock,                \* what datetime.now() returns next
    ret                   \* the last call: its name, its arguments, its return
                          \* value and, for a write, what the matching read
                          \* returned before it (field before)

vars == <<students, internships, interaction_history,
          db_students, db_internships, db_interactions, clock, ret>>

store == <<students, internships, interaction_history,
           db_students, db_internships, db_interactions>>

(***************************************************************************)
(* Bounds of the model.                                                    *)
(***************************************************************************)
MaxStudents == 2       \* add_student calls in one run
MaxInternships == 2    \* add_internship calls in one run
MaxInteractions == 2   \* record_interaction calls in one run

-----------------------------------------------------------------------------
(***************************************************************************)
(* Strings with a case: sequences of ASCII codes.                          *)
(***************************************************************************)
Python == <<80, 121, 116, 104, 111, 110>>
python == <<112, 121, 116, 104, 111, 110>>
MachineLearning == <<77, 97, 99, 104, 105, 110, 101, 32, 76, 101, 97, 114, 110, 105, 110, 103>>
DataAnalysis == <<68, 97, 116, 97, 32, 65, 110, 97, 108, 121, 115, 105, 115>>
Java == <<74, 97, 118, 97>>
SQL == <<83, 81, 76>>
LangC == <<67>>
LangGo == <<71, 111>>
LangR == <<82>>
LangJS == <<74, 83>>
Rust == <<82, 117, 115, 116>>
Perl == <<80, 101, 114, 108>>
Ruby == <<82, 117, 98, 121>>
Scala == <<83, 99, 97, 108, 97>>
Swift == <<83, 119, 105, 102, 116>>

beginner == <<98, 101, 103, 105, 110, 110, 101, 114>>
intermediate == <<105, 110, 116, 101, 114, 109, 101, 100, 105, 97, 116, 101>>
advanced == <<97, 100, 118, 97, 110, 99, 101, 100>>
Advanced == <<65, 100, 118, 97, 110, 99, 101, 100>>
INTERMEDIATE == <<73, 78, 84, 69, 82, 77, 69, 68, 73, 65, 84, 69>>
expert == <<101, 120, 112, 101, 114, 116>>

\* str.lower() on ASCII text: 'A'..'Z' (65..90) map to 'a'..'z'
lower(s) == [i \in DOMAIN s |-> IF s[i] \in 65..90 THEN s[i] + 32 ELSE s[i]]

-----------------------------------------------------------------------------
(***************************************************************************)
(* json.dumps and json.loads on a list of strings, as token sequences.     *)
(***************************************************************************)
RECURSIVE json_items(_, _)
json_items(list, i) ==
    IF i > Len(list) THEN <<>>
    ELSE (IF i > 1 THEN <<[t |-> ","]>> ELSE <<>>)
         \o <<[t |-> "str", v |-> list[i]]>>
         \o json_items(list, i + 1)

json_dumps(list) == <<[t |-> "["]>> \o json_items(list, 1) \o <<[t |-> "]"]>>

RECURSIVE json_parse(_, _, _)
json_parse(text, i, acc) ==
    IF text[i].t = "]" THEN acc
    ELSE IF text[i].t = "," THEN json_parse(text, i + 1, acc)
    ELSE json_parse(text, i + 1, Append(acc, text[i].v))

json_loads(text) == json_parse(text, 2, <<>>)

-----------------------------------------------------------------------------
(***************************************************************************)
(* Student and Internship objects (the constructors' arguments).           *)
(***************************************************************************)
Student(student_id, name, skills, academic_background, gpa, preferred_locations, preferred_industries, experience_level) ==
    [student_id |-> student_id, name |-> name, skills |-> skills,
     academic_background |-> academic_background, gpa |-> gpa,
     preferred_locations |-> preferred_locations,
     preferred_industries |-> preferred_industries,
     experience_level |-> experience_level]

Internship(internship_id, company_name, role_title, required_skills, location, industry, duration_months, min_gpa, experience_required, description) ==
    [internship_id |-> internship_id, company_name |-> company_name,
     role_title |-> role_title, required_skills |-> required_skills,
     location |-> location, industry |-> industry,
     duration_months |-> duration_months, min_gpa |-> min_gpa,
     experience_required |-> experience_required, description |-> description]

\* the sample data of __main__ that the claims use
sample_s1 == Student("s1", "Alice Johnson", <<Python, MachineLearning, DataAnalysis>>,
                     "Computer Science", 38, <<"New York", "San Francisco">>,
                     <<"Technology">>, intermediate)
sample_i1 == Internship("i1", "TechCorp", "Data Science Intern",
                        <<Python, MachineLearning>>, "San Francisco", "Technology",
                        3, 35, intermediate, "Work on ML models")
sample_i2 == Internship("i2", "FinanceInc", "Software Developer Intern",
                        <<Java, SQL>>, "New York", "Finance",
                        4, 34, beginner, "Develop backend services")

\* the requests the model posts to /api/students
StudentInputs ==
    { sample_s1,
      Student("s1", "Alice J.", <<python, SQL, SQL>>, "Computer Science", 33,
              <<"New York">>, <<>>, expert) }

\* the requests the model posts to /api/internships
InternshipInputs ==
    { sample_i1, sample_i2,
      Internship("i1", "TechCorp", "ML Intern", <<python, SQL, SQL>>,
                 "New York", "Technology", 3, 39, Advanced, "Replaces i1"),
      Internship("i3", "PolyglotLabs", "Systems Intern",
                 <<LangC, LangGo, LangR, LangJS, Rust, Perl, Ruby, Scala, Swift>>,
                 "Boston", "Technology", 6, 30, expert, "Many languages") }

-----------------------------------------------------------------------------
(***************************************************************************)
(* The SQLite tables.                                                      *)
(***************************************************************************)
\* the rows of a table whose column `key` differs from `id`, in rowid order
RECURSIVE rows_without(_, _, _)
rows_without(table, key, id) ==
    IF table = <<>> THEN <<>>
    ELSE (IF Head(table)[key] = id THEN <<>> ELSE <<Head(table)>>)
         \o rows_without(Tail(table), key, id)

\* INSERT OR IGNORE in place of INSERT OR REPLACE: a stored key keeps its row
insert_or_ignore(table, key, row) ==
    IF \E i \in DOMAIN table : table[i][key] = row[key] THEN table
    ELSE Append(table, row)

\* INSERT OR REPLACE INTO a table with a TEXT PRIMARY KEY: the row that holds
\* the key is deleted and the new row gets a rowid above every other
insert_or_replace(table, key, row) ==
    Append(rows_without(table, key, row[key]), row)

\* the tuple add_student binds to the INSERT
student_row(student) ==
    [student_id |-> student.student_id, name |-> student.name,
     skills |-> json_dumps(student.skills),
     academic_background |-> student.academic_background,
     gpa |-> student.gpa,
     preferred_locations |-> json_dumps(student.preferred_locations),
     preferred_industries |-> json_dumps(student.preferred_industries),
     experience_level |-> student.experience_level]

\* the tuple add_internship binds to the INSERT
internship_row(internship) ==
    [internship_id |-> internship.internship_id,
     company_name |-> internship.company_name,
     role_title |-> internship.role_title,
     required_skills |-> json_dumps(internship.required_skills),
     location |-> internship.location, industry |-> internship.industry,
     duration_months |-> internship.duration_months,
     min_gpa |-> internship.min_gpa,
     experience_required |-> internship.experience_required,
     description |-> internship.description]

add_student(student) ==
    /\ students' = Append(students, student)
    /\ db_students' = insert_or_replace(db_students, "student_id", student_row(student))
    /\ UNCHANGED <<internships, interaction_history, db_internships,
                   db_interactions, clock>>

add_internship(internship) ==
    /\ internships' = Append(internships, internship)
    /\ db_internships' =
           insert_or_replace(db_internships, "internship_id", internship_row(internship))
    /\ UNCHANGED <<students, interaction_history, db_students,
                   db_interactions, clock>>

\* get_all_students over the rows of SELECT * FROM students
get_all_students_of(table) ==
    [i \in DOMAIN table |->
        [student_id |-> table[i].student_id, name |-> table[i].name,
         skills |-> json_loads(table[i].skills),
         academic_background |-> table[i].academic_background,
         gpa |-> table[i].gpa,
         preferred_locations |-> json_loads(table[i].preferred_locations),
         preferred_industries |-> json_loads(table[i].preferred_industries),
         experience_level |-> table[i].experience_level]]

get_all_students == get_all_students_of(db_students)

\* get_all_internships over the rows of SELECT * FROM internships
get_all_internships_of(table) ==
    [i \in DOMAIN table |->
        [internship_id |-> table[i].internship_id,
         company_name |-> table[i].company_name,
         role_title |-> table[i].role_title,
         required_skills |-> json_loads(table[i].required_skills),
         location |-> table[i].location, industry |-> table[i].industry,
         duration_months |-> table[i].duration_months,
         min_gpa |-> table[i].min_gpa,
         experience_required |-> table[i].experience_required,
         description |-> table[i].description]]

get_all_internships == get_all_internships_of(db_internships)

-----------------------------------------------------------------------------
(***************************************************************************)
(* Floats in [0, 1] as exact fractions in lowest terms.                    *)
(***************************************************************************)
RECURSIVE gcd(_, _)
gcd(a, b) == IF b = 0 THEN a ELSE gcd(b, a % b)

frac(n, d) == [num |-> n \div gcd(n, d), den |-> d \div gcd(n, d)]
frac_add(x, y) == frac(x.num * y.den + y.num * x.den, x.den * y.den)
frac_mul(x, y) == frac(x.num * y.num, x.den * y.den)
frac_gt(x, y) == x.num * y.den > y.num * x.den
frac_ge(x, y) == x.num * y.den >= y.num * x.den

Zero == frac(0, 1)     \* 0.0
Half == frac(1, 2)     \* 0.5
One == frac(1, 1)      \* 1.0

-----------------------------------------------------------------------------
(***************************************************************************)
(* The scorer.                                                             *)
(***************************************************************************)
\* the similarity without the lower() calls
calculate_skill_similarity_exact_case(student_skills, internship_skills) ==
    LET set_student == {student_skills[i] : i \in DOMAIN student_skills}
        set_internship == {internship_skills[i] : i \in DOMAIN internship_skills}
        intersection == Cardinality(set_student \cap set_internship)
        union == Cardinality(set_student \cup set_internship)
    IN  IF union > 0 THEN frac(intersection, union) ELSE Zero

\* Jaccard similarity of the lowercased skill sets
calculate_skill_similarity(student_skills, internship_skills) ==
    LET set_student == {lower(student_skills[i]) : i \in DOMAIN student_skills}
        set_internship == {lower(internship_skills[i]) : i \in DOMAIN internship_skills}
        intersection == Cardinality(set_student \cap set_internship)
        union == Cardinality(set_student \cup set_internship)
    IN  IF union > 0 THEN frac(intersection, union) ELSE Zero

\* the dict of calculate_content_based_similarity
exp_levels ==
    [k \in {beginner, intermediate, advanced} |->
        IF k = beginner THEN 1 ELSE IF k = intermediate THEN 2 ELSE 3]

\* dict.get(key, default)
dict_get(d, key, default) == IF key \in DOMAIN d THEN d[key] ELSE default

\* x in list
in_list(x, list) == \E i \in DOMAIN list : list[i] = x

\* exp_match with no partial credit
experience_match_no_credit(student_experience, experience_required) ==
    LET student_exp == dict_get(exp_levels, lower(student_experience), 1)
        required_exp == dict_get(exp_levels, lower(experience_required), 1)
    IN  IF student_exp >= required_exp THEN One ELSE Zero

\* exp_match: 1.0 when the candidate's level reaches the required one, else 0.5
experience_match(student_experience, experience_required) ==
    LET student_exp == dict_get(exp_levels, lower(student_experience), 1)
        required_exp == dict_get(exp_levels, lower(experience_required), 1)
    IN  IF student_exp >= required_exp THEN One ELSE Half

\* total_score with the weights of skill and location exchanged
weighted_sum_swapped(skill_sim, location_match, industry_match, gpa_match, exp_match) ==
    frac_add(frac_add(frac_add(frac_add(
        frac_mul(skill_sim, frac(2, 10)),
        frac_mul(location_match, frac(4, 10))),
        frac_mul(industry_match, frac(2, 10))),
        frac_mul(gpa_match, frac(1, 10))),
        frac_mul(exp_match, frac(1, 10)))

\* total_score: the weighted sum of the five signals
weighted_sum(skill_sim, location_match, industry_match, gpa_match, exp_match) ==
    frac_add(frac_add(frac_add(frac_add(
        frac_mul(skill_sim, frac(4, 10)),
        frac_mul(location_match, frac(2, 10))),
        frac_mul(industry_match, frac(2, 10))),
        frac_mul(gpa_match, frac(1, 10))),
        frac_mul(exp_match, frac(1, 10)))

\* the locals of calculate_content_based_similarity when it returns
content_based_locals(student_skills, student_gpa, student_locations, student_industries, student_experience, internship) ==
    LET skill_sim == calculate_skill_similarity(student_skills, internship.required_skills)
        location_match == IF in_list(internship.location, student_locations)
                          THEN One ELSE Zero
        industry_match == IF in_list(internship.industry, student_industries)
                          THEN One ELSE Zero
        gpa_match == IF student_gpa >= internship.min_gpa THEN One ELSE Zero
        exp_match == experience_match(student_experience, internship.experience_required)
        total_score == weighted_sum(skill_sim, location_match, industry_match,
                                    gpa_match, exp_match)
    IN  [skill_sim |-> skill_sim, location_match |-> location_match,
         industry_match |-> industry_match, gpa_match |-> gpa_match,
         exp_match |-> exp_match, total_score |-> total_score]

calculate_content_based_similarity(student_skills, student_gpa, student_locations, student_industries, student_experience, internship) ==
    content_based_locals(student_skills, student_gpa, student_locations,
                         student_industries, student_experience,
                         internship).total_score

-----------------------------------------------------------------------------
(***************************************************************************)
(* The ranker.                                                             *)
(***************************************************************************)
\* list.sort(key=..., reverse=True) and sorted(..., key=..., reverse=True):
\* the key of every element is computed once (keys[i] is the key of list[i]),
\* the order is descending by key and stable, elements with equal keys keep
\* the order they had.  sort_insert places position x into the sorted positions.
RECURSIVE sort_insert_unstable(_, _, _)
sort_insert_unstable(sorted, x, keys) ==
    IF sorted = <<>> THEN <<x>>
    ELSE IF frac_ge(keys[x], keys[Head(sorted)]) THEN <<x>> \o sorted
    ELSE <<Head(sorted)>> \o sort_insert_unstable(Tail(sorted), x, keys)

RECURSIVE sort_insert(_, _, _)
sort_insert(sorted, x, keys) ==
    IF sorted = <<>> THEN <<x>>
    ELSE IF frac_gt(keys[x], keys[Head(sorted)]) THEN <<x>> \o sorted
    ELSE <<Head(sorted)>> \o sort_insert(Tail(sorted), x, keys)

RECURSIVE sort_from(_, _, _)
sort_from(i, sorted, keys) ==
    IF i > Len(keys) THEN sorted
    ELSE sort_from(i + 1, sort_insert(sorted, i, keys), keys)

sort_reverse(list, keys) ==
    LET order == sort_from(1, <<>>, keys)
    IN  [k \in DOMAIN list |-> list[order[k]]]

\* list[:stop] for an integer stop
slice_to(list, stop) ==
    LET n == Len(list)
        upper == IF stop < 0 THEN (IF n + stop < 0 THEN 0 ELSE n + stop)
                 ELSE (IF stop > n THEN n ELSE stop)
    IN  SubSeq(list, 1, upper)

\* fetchone() of a SELECT that falls back to the first row of the table
fetch_student_or_first(table, student_id) ==
    LET found == SelectSeq(table, LAMBDA row : row.student_id = student_id)
    IN  IF found # <<>> THEN <<Head(found)>>
        ELSE IF table # <<>> THEN <<Head(table)>> ELSE <<>>

\* cursor.fetchone() of SELECT * FROM students WHERE student_id = ?
fetch_student(table, student_id) ==
    LET found == SelectSeq(table, LAMBDA row : row.student_id = student_id)
    IN  IF found = <<>> THEN <<>> ELSE <<Head(found)>>

\* rec_data = internship.copy(); rec_data['match_score'] = score
with_match_score(internship, score) ==
    [f \in DOMAIN internship \cup {"match_score"} |->
        IF f = "match_score" THEN score ELSE internship[f]]

\* the list `recommendations` before it is sorted
score_all(student_data, all_internships) ==
    [i \in DOMAIN all_internships |->
        with_match_score(all_internships[i],
            calculate_content_based_similarity(
                student_data.skills, student_data.gpa,
                student_data.preferred_locations,
                student_data.preferred_industries,
                student_data.experience_level, all_internships[i]))]

\* key=lambda x: x['match_score'] over a list
match_score_keys(list) == [i \in DOMAIN list |-> list[i].match_score]

hybrid_recommendations_of(student_table, internship_table, student_id, top_n) ==
    LET student_row_ == fetch_student(student_table, student_id)
    IN  IF student_row_ = <<>> THEN <<>>
        ELSE LET row == student_row_[1]
                 student_data ==
                     [skills |-> json_loads(row.skills), gpa |-> row.gpa,
                      preferred_locations |-> json_loads(row.preferred_locations),
                      preferred_industries |-> json_loads(row.preferred_industries),
                      experience_level |-> row.experience_level]
                 recommendations ==
                     score_all(student_data, get_all_internships_of(internship_table))
             IN  slice_to(sort_reverse(recommendations, match_score_keys(recommendations)),
                          top_n)

hybrid_recommendations(student_id, top_n) ==
    hybrid_recommendations_of(db_students, db_internships, student_id, top_n)

-----------------------------------------------------------------------------
(***************************************************************************)
(* The interaction log and the analytics.                                  *)
(***************************************************************************)
\* an interaction is stored only for a stored student
record_interaction_validated(student_id, internship_id, action, rating) ==
    /\ db_interactions' =
           IF \E i \in DOMAIN db_students : db_students[i].student_id = student_id
           THEN Append(db_interactions,
                       [student_id |-> student_id, internship_id |-> internship_id,
                        action |-> action, rating |-> rating, timestamp |-> clock])
           ELSE db_interactions
    /\ clock' = clock + 1
    /\ UNCHANGED <<students, internships, interaction_history,
                   db_students, db_internships>>

record_interaction(student_id, internship_id, action, rating) ==
    /\ db_interactions' =
           Append(db_interactions,
                  [student_id |-> student_id, internship_id |-> internship_id,
                   action |-> action, rating |-> rating, timestamp |-> clock])
    /\ clock' = clock + 1
    /\ UNCHANGED <<students, internships, interaction_history,
                   db_students, db_internships>>

\* all_skills: the required skills of every row, in scan order
RECURSIVE all_skills_of(_)
all_skills_of(table) ==
    IF table = <<>> THEN <<>>
    ELSE json_loads(Head(table).required_skills) \o all_skills_of(Tail(table))

\* skill_counts[skill] = skill_counts.get(skill, 0) + 1 on a dict, which keeps
\* its keys in insertion order: a list of <<key, count>> items
dict_increment(items, skill) ==
    IF \E i \in DOMAIN items : items[i][1] = skill
    THEN [i \in DOMAIN items |->
             IF items[i][1] = skill THEN <<skill, items[i][2] + 1>> ELSE items[i]]
    ELSE Append(items, <<skill, 1>>)

RECURSIVE count_skills(_, _, _)
count_skills(all_skills, i, skill_counts) ==
    IF i > Len(all_skills) THEN skill_counts
    ELSE count_skills(all_skills, i + 1, dict_increment(skill_counts, all_skills[i]))

\* key=lambda x: x[1] over skill_counts.items()
count_keys(items) == [i \in DOMAIN items |-> frac(items[i][2], 1)]

TopSkills == 10    \* the slice [:10] of top_skills

\* top_skills without the slice
top_skills_unsliced(internship_table) ==
    LET skill_counts == count_skills(all_skills_of(internship_table), 1, <<>>)
    IN  sort_reverse(skill_counts, count_keys(skill_counts))

top_skills_of(internship_table) ==
    LET skill_counts == count_skills(all_skills_of(internship_table), 1, <<>>)
    IN  slice_to(sort_reverse(skill_counts, count_keys(skill_counts)), TopSkills)

get_analytics_of(student_table, internship_table, interaction_table) ==
    [total_students |-> Len(student_table),
     total_internships |-> Len(internship_table),
     total_interactions |-> Len(interaction_table),
     top_skills_in_demand |-> top_skills_of(internship_table)]

get_analytics == get_analytics_of(db_students, db_internships, db_interactions)

-----------------------------------------------------------------------------
(***************************************************************************)
(* The Flask routes: one action per request.                               *)
(***************************************************************************)
StudentIdInputs == {"s1", "s9"}     \* "s9" is never stored
TopNInputs == {-1, 0, 1, 2, 10}           \* ?top_n=, 10 when absent

\* the bodies posted to /api/interact; rating is data.get('rating')
InteractionInputs ==
    { [student_id |-> "s1", internship_id |-> "i1", action |-> "view", rating |-> <<>>],
      [student_id |-> "s9", internship_id |-> "i9", action |-> "apply", rating |-> <<5>>] }

\* POST /api/students
route_add_student ==
    \E student \in StudentInputs :
        /\ Len(students) < MaxStudents
        /\ add_student(student)
        /\ ret' = [op |-> "add_student", student |-> student,
                   before |-> get_all_students]

\* POST /api/internships
route_add_internship ==
    \E internship \in InternshipInputs :
        /\ Len(internships) < MaxInternships
        /\ add_internship(internship)
        /\ ret' = [op |-> "add_internship", internship |-> internship,
                   before |-> get_all_internships]

\* GET /api/students
route_get_students ==
    /\ ret' = [op |-> "get_all_students", value |-> get_all_students]
    /\ UNCHANGED <<store, clock>>

\* GET /api/internships
route_get_internships ==
    /\ ret' = [op |-> "get_all_internships", value |-> get_all_internships]
    /\ UNCHANGED <<store, clock>>

\* the ranking with the score written to the stored rows instead of a copy
route_get_recommendations_scoring_rows ==
    \E student_id \in StudentIdInputs, top_n \in TopNInputs :
        /\ ret' = [op |-> "hybrid_recommendations", student_id |-> student_id,
                   top_n |-> top_n,
                   value |-> hybrid_recommendations(student_id, top_n)]
        /\ db_internships' =
               IF fetch_student(db_students, student_id) = <<>> THEN db_internships
               ELSE [i \in DOMAIN db_internships |->
                        with_match_score(db_internships[i], Zero)]
        /\ UNCHANGED <<students, internships, interaction_history, db_students,
                       db_interactions, clock>>

\* GET /api/recommendations/<student_id>
route_get_recommendations ==
    \E student_id \in StudentIdInputs, top_n \in TopNInputs :
        /\ ret' = [op |-> "hybrid_recommendations", student_id |-> student_id,
                   top_n |-> top_n,
                   value |-> hybrid_recommendations(student_id, top_n)]
        /\ UNCHANGED <<store, clock>>

\* POST /api/interact
route_record_interaction ==
    \E data \in InteractionInputs :
        /\ Len(db_interactions) < MaxInteractions
        /\ record_interaction(data.student_id, data.internship_id,
                              data.action, data.rating)
        /\ ret' = [op |-> "record_interaction", student_id |-> data.student_id,
                   internship_id |-> data.internship_id,
                   before |-> get_analytics]

\* GET /api/analytics
route_get_analytics ==
    /\ ret' = [op |-> "get_analytics", value |-> get_analytics]
    /\ UNCHANGED <<store, clock>>

\* AIMatchmakingSystem() on a new database file
Init ==
    /\ students = <<>>
    /\ internships = <<>>
    /\ interaction_history = <<>>
    /\ db_students = <<>>
    /\ db_internships = <<>>
    /\ db_interactions = <<>>
    /\ clock = 0
    /\ ret = [op |-> "init"]

-----------------------------------------------------------------------------
(***************************************************************************)
(* Direct calls of the two pure scoring methods, one call per run.         *)
(***************************************************************************)
MaxSkills == 3     \* longest skill list given to calculate_skill_similarity

SkillAlphabet == {Python, python, SQL}

RECURSIVE lists_up_to(_, _)
lists_up_to(alphabet, n) ==
    IF n = 0 THEN {<<>>}
    ELSE LET shorter == lists_up_to(alphabet, n - 1)
         IN  shorter \cup {Append(l, x) : l \in shorter, x \in alphabet}

SkillLists == lists_up_to(SkillAlphabet, MaxSkills)

ExperienceInputs == {beginner, intermediate, advanced, Advanced, INTERMEDIATE, expert}

\* the candidates given to calculate_content_based_similarity
ScorerStudents ==
    [skills : {<<>>, sample_s1.skills, <<python, SQL, SQL>>},
     gpa : {33, 38},
     preferred_locations : {<<>>, sample_s1.preferred_locations},
     preferred_industries : {<<>>, sample_s1.preferred_industries},
     experience_level : ExperienceInputs]

\* the opportunities given to calculate_content_based_similarity
ScorerInternships ==
    {sample_i1, sample_i2} \cup
    { Internship("ix", "Acme", "Intern", skills, location, industry, 3, min_gpa,
                 experience, "")
        : skills \in {<<>>, <<SQL, Python>>}, location \in {"New York", "Chicago"},
          industry \in {"Technology", "Finance"}, min_gpa \in {34},
          experience \in ExperienceInputs }

call_skill_similarity ==
    \E a \in SkillLists, b \in SkillLists :
        /\ ret.op = "init"
        /\ ret' = [op |-> "calculate_skill_similarity", student_skills |-> a,
                   internship_skills |-> b,
                   value |-> calculate_skill_similarity(a, b)]
        /\ UNCHANGED <<store, clock>>

call_content_based_similarity ==
    \E s \in ScorerStudents, internship \in ScorerInternships :
        /\ ret.op = "init"
        /\ ret' = [op |-> "calculate_content_based_similarity", student |-> s,
                   internship |-> internship,
                   locals |-> content_based_locals(
                       s.skills, s.gpa, s.preferred_locations,
                       s.preferred_industries, s.experience_level, internship),
                   value |-> calculate_content_based_similarity(
                       s.skills, s.gpa, s.preferred_locations,
                       s.preferred_industries, s.experience_level, internship)]
        /\ UNCHANGED <<store, clock>>

-----------------------------------------------------------------------------
(***************************************************************************)
(* Specifications.                                                         *)
(***************************************************************************)
\* the catalog, the candidates and the ranker
Next ==
    \/ route_add_student
    \/ route_add_internship
    \/ route_get_internships
    \/ route_get_recommendations
    \/ route_get_analytics

Spec == Init /\ [][Next]_vars

\* the store and its analytics
NextAnalytics ==
    \/ route_add_student
    \/ route_add_internship
    \/ route_get_students
    \/ route_get_internships
    \/ route_get_analytics

SpecAnalytics == Init /\ [][NextAnalytics]_vars

\* the interaction log
NextLog ==
    \/ route_add_student
    \/ route_add_internship
    \/ route_record_interaction
    \/ route_get_analytics

SpecLog == Init /\ [][NextLog]_vars

\* the scorer
NextScorer ==
    \/ call_skill_similarity
    \/ call_content_based_similarity

SpecScorer == Init /\ [][NextScorer]_vars

-----------------------------------------------------------------------------
(***************************************************************************)
(* Properties.                                                             *)
(***************************************************************************)
\* the values of column `key` in a table
keys_of(table, key) == {table[i][key] : i \in DOMAIN table}

unique_keys(table, key) == Cardinality(keys_of(table, key)) = Len(table)

RankCall == "hybrid_recommendations"
ContentCall == "calculate_content_based_similarity"

\* C1: a record_interaction call, whatever its identifiers, makes get_analytics
\* report total_interactions one higher than before the call and
\* total_students and total_internships as before.
C1_RecordAddsOneInteraction ==
    ret.op = "record_interaction" =>
        /\ get_analytics.total_interactions = ret.before.total_interactions + 1
        /\ get_analytics.total_students = ret.before.total_students
        /\ get_analytics.total_internships = ret.before.total_internships

\* an interaction whose identifiers match nothing stored was recorded, second
\* in the log, while students and internships are stored
C1_Witness ==
    /\ ret.op = "record_interaction"
    /\ ret.student_id \notin keys_of(db_students, "student_id")
    /\ ret.internship_id \notin keys_of(db_internships, "internship_id")
    /\ db_students # <<>>
    /\ db_internships # <<>>
    /\ get_analytics.total_interactions = 2

\* C2: each table holds one entity per identifier; an add with a stored
\* identifier replaces that entity's attributes and keeps the size, an add
\* with a new identifier grows the size by one; other entities are kept.
C2_AddEffect(entity, id, before, after, total) ==
    /\ Len(after) = IF \E j \in DOMAIN before : before[j][id] = entity[id]
                    THEN Len(before) ELSE Len(before) + 1
    /\ total = Len(after)
    /\ \E i \in DOMAIN after : after[i] = entity
    /\ \A j \in DOMAIN before :
          before[j][id] # entity[id] => \E i \in DOMAIN after : after[i] = before[j]

C2_ReplaceByIdentifier ==
    /\ unique_keys(get_all_students, "student_id")
    /\ unique_keys(get_all_internships, "internship_id")
    /\ ret.op = "add_student" =>
          C2_AddEffect(ret.student, "student_id", ret.before, get_all_students,
                       get_analytics.total_students)
    /\ ret.op = "add_internship" =>
          C2_AddEffect(ret.internship, "internship_id", ret.before,
                       get_all_internships, get_analytics.total_internships)

\* both tables hold one row after two adds with the same identifier and
\* different attributes
C2_Witness ==
    /\ Len(students) = 2 /\ Len(db_students) = 1
    /\ students[1] # students[2]
    /\ Len(internships) = 2 /\ Len(db_internships) = 1
    /\ internships[1] # internships[2]
    /\ ret.op = "add_internship"

\* the stored student with an identifier
stored_student(student_id) ==
    CHOOSE s \in {get_all_students[i] : i \in DOMAIN get_all_students} :
        s.student_id = student_id

score_of(s, internship) ==
    calculate_content_based_similarity(s.skills, s.gpa, s.preferred_locations,
                                       s.preferred_industries, s.experience_level,
                                       internship)

\* C3: for a positive top_n and a stored student, hybrid_recommendations
\* returns the first min(top_n, catalog size) entries of the catalog in
\* descending order of match_score, entries of equal score in the order of
\* get_all_internships.  The value is a function of the store and the
\* arguments, so two calls on an unchanged store return the same sequence.
C3_RankedPrefix ==
    (/\ ret.op = RankCall
     /\ ret.top_n > 0
     /\ ret.student_id \in keys_of(db_students, "student_id"))
    => LET cat == get_all_internships
           n == Len(cat)
           s == stored_student(ret.student_id)
           score == [i \in 1..n |-> score_of(s, cat[i])]
           before(j, i) == \/ frac_gt(score[j], score[i])
                           \/ score[j] = score[i] /\ j < i
           rank(i) == 1 + Cardinality({j \in 1..n : before(j, i)})
           k == IF ret.top_n < n THEN ret.top_n ELSE n
       IN  /\ Len(ret.value) = k
           /\ \A i \in 1..n :
                 rank(i) <= k =>
                     /\ DOMAIN ret.value[rank(i)] = DOMAIN cat[i] \cup {"match_score"}
                     /\ ret.value[rank(i)].match_score = score[i]
                     /\ \A f \in DOMAIN cat[i] : ret.value[rank(i)][f] = cat[i][f]

\* top_n = 1 on the catalog <<i3, i2>>, whose two entries score the same for
\* the student: the result is i3, the first of the catalog
C3_Witness ==
    /\ ret.op = RankCall
    /\ ret.top_n = 1
    /\ ret.student_id \in keys_of(db_students, "student_id")
    /\ Len(db_internships) = 2
    /\ db_internships[1].internship_id = "i3"
    /\ score_of(stored_student(ret.student_id), get_all_internships[1])
         = score_of(stored_student(ret.student_id), get_all_internships[2])
    /\ Len(ret.value) = 1
    /\ ret.value[1].internship_id = "i3"

\* C4: for top_n <= 0, hybrid_recommendations returns an empty sequence.
C4_NonPositiveTopNIsEmpty ==
    (ret.op = RankCall /\ ret.top_n <= 0) => ret.value = <<>>

\* C5: hybrid_recommendations on an identifier that is not in the student
\* table returns an empty sequence, for every top_n and every catalog.
C5_UnknownStudentIsEmpty ==
    (ret.op = RankCall /\ ret.student_id \notin keys_of(db_students, "student_id"))
    => ret.value = <<>>

\* an unknown identifier was ranked with students stored and a full catalog
C5_Witness ==
    /\ ret.op = RankCall
    /\ ret.student_id \notin keys_of(db_students, "student_id")
    /\ ret.top_n = 10
    /\ db_students # <<>>
    /\ Len(db_internships) = 2

\* the call on the sample candidate s1 and the sample opportunity i2
SampleCall ==
    /\ ret.op = ContentCall
    /\ ret.student = [skills |-> sample_s1.skills, gpa |-> sample_s1.gpa,
                      preferred_locations |-> sample_s1.preferred_locations,
                      preferred_industries |-> sample_s1.preferred_industries,
                      experience_level |-> sample_s1.experience_level]
    /\ ret.internship = sample_i2

\* C6: for the sample candidate and the opportunity requiring {Java, SQL} in
\* New York, Finance, min GPA 3.4, beginner: skill 0, location 0, industry 0,
\* GPA 1.0, experience 1.0, score 0.2.
C6_SampleScore ==
    SampleCall =>
        /\ ret.locals.skill_sim = Zero
        /\ ret.locals.location_match = Zero
        /\ ret.locals.industry_match = Zero
        /\ ret.locals.gpa_match = One
        /\ ret.locals.exp_match = One
        /\ ret.value = frac(2, 10)

\* C6 as amended: New York is one of the candidate's preferred locations, so
\* the location match is 1.0 and the score is 0.4.
C6_SampleScoreAmended ==
    SampleCall =>
        /\ ret.locals.skill_sim = Zero
        /\ ret.locals.location_match = One
        /\ ret.locals.industry_match = Zero
        /\ ret.locals.gpa_match = One
        /\ ret.locals.exp_match = One
        /\ ret.value = frac(4, 10)

C6_Witness == SampleCall

\* the ordinal the scale gives each experience label of the inputs
ExpectedOrdinal ==
    [e \in ExperienceInputs |->
        IF e \in {intermediate, INTERMEDIATE} THEN 2
        ELSE IF e \in {advanced, Advanced} THEN 3
        ELSE 1]

\* C7: the score is 0.4*skill + 0.2*location + 0.2*industry + 0.1*GPA +
\* 0.1*experience and lies in [0, 1]; the experience signal is 1.0 when the
\* candidate's ordinal is at least the required one and 0.5 otherwise.
C7_WeightedSumInUnitInterval ==
    ret.op = ContentCall =>
        LET l == ret.locals
            d == 2 * l.skill_sim.den
            over_d(x) == x.num * (d \div x.den)
        IN  /\ ret.value.num * 10 * d
                 = ret.value.den * (4 * over_d(l.skill_sim)
                                    + 2 * over_d(l.location_match)
                                    + 2 * over_d(l.industry_match)
                                    + over_d(l.gpa_match)
                                    + over_d(l.exp_match))
            /\ ret.value.den > 0
            /\ 0 <= ret.value.num /\ ret.value.num <= ret.value.den
            /\ l.exp_match =
                 IF ExpectedOrdinal[ret.student.experience_level]
                      >= ExpectedOrdinal[ret.internship.experience_required]
                 THEN One ELSE Half

\* an unrecognized level against an upper-case INTERMEDIATE: partial credit
C7_Witness ==
    /\ ret.op = ContentCall
    /\ ret.student.experience_level = expert
    /\ ret.internship.experience_required = INTERMEDIATE
    /\ ret.locals.exp_match = Half
    /\ ret.locals.skill_sim = One
    /\ ret.value = frac(85, 100)

\* the lowercase form of each label of the alphabet
NormalizedLabel ==
    [l \in SkillAlphabet |->
        IF l \in {Python, python} THEN <<112, 121, 116, 104, 111, 110>>
        ELSE <<115, 113, 108>>]

\* C8: calculate_skill_similarity is 1.0 iff the lowercase-normalized sets are
\* equal and non-empty, and 0.0 when they are disjoint or both empty.
C8_SkillSimilarityEnds ==
    ret.op = "calculate_skill_similarity" =>
        LET a == {NormalizedLabel[ret.student_skills[i]] : i \in DOMAIN ret.student_skills}
            b == {NormalizedLabel[ret.internship_skills[i]]
                    : i \in DOMAIN ret.internship_skills}
        IN  /\ ret.value = One <=> (a = b /\ a # {})
            /\ a \cap b = {} => ret.value = Zero

\* lists with a duplicate and mixed case whose normalized sets are equal
C8_Witness ==
    /\ ret.op = "calculate_skill_similarity"
    /\ ret.student_skills = <<Python, python, SQL>>
    /\ ret.internship_skills = <<SQL, python>>
    /\ ret.value = One

\* the positions <<i, j>> of the required-skill lists of the stored catalog
SkillPositions ==
    UNION {{<<i, j>> : j \in DOMAIN get_all_internships[i].required_skills}
             : i \in DOMAIN get_all_internships}

PositionsOf(label) ==
    {p \in SkillPositions : get_all_internships[p[1]].required_skills[p[2]] = label}

Earlier(p, q) == p[1] < q[1] \/ (p[1] = q[1] /\ p[2] < q[2])

FirstSeen(label) ==
    CHOOSE p \in PositionsOf(label) :
        \A q \in PositionsOf(label) : p = q \/ Earlier(p, q)

\* C9: top_skills_in_demand has at most 10 pairs; each count is the number
\* of exact occurrences of the label in the required skills of the stored
\* opportunities; the pairs are in descending order of count, equal counts in
\* first-seen order of the scan.
C9_TopSkills ==
    ret.op = "get_analytics" =>
        LET top == ret.value.top_skills_in_demand
        IN  /\ Len(top) <= 10
            /\ \A k \in DOMAIN top :
                  /\ PositionsOf(top[k][1]) # {}
                  /\ top[k][2] = Cardinality(PositionsOf(top[k][1]))
            /\ \A k \in 1..(Len(top) - 1) :
                  \/ top[k][2] > top[k + 1][2]
                  \/ /\ top[k][2] = top[k + 1][2]
                     /\ Earlier(FirstSeen(top[k][1]), FirstSeen(top[k + 1][1]))

\* eleven distinct labels are stored, one of them twice and seen last: ten
\* pairs are returned and that label leads
C9_Witness ==
    /\ ret.op = "get_analytics"
    /\ Cardinality({get_all_internships[p[1]].required_skills[p[2]] : p \in SkillPositions})
         = 11
    /\ Len(ret.value.top_skills_in_demand) = 10
    /\ ret.value.top_skills_in_demand[1] = <<SQL, 2>>
    /\ FirstSeen(SQL)[1] = 2

\* C10: hybrid_recommendations and get_analytics leave the stored students,
\* internships and interactions as they were, and get_all_internships returns
\* the same opportunities, none with a match_score.
C10_ReadsLeaveStore ==
    [][ret'.op \in {RankCall, "get_analytics"} =>
          /\ UNCHANGED store
          /\ get_all_internships' = get_all_internships
          /\ get_all_students' = get_all_students
          /\ \A i \in DOMAIN get_all_internships' :
                "match_score" \notin DOMAIN get_all_internships'[i]]_vars

\* a ranking returned scored copies while the catalog has no match_score
C10_Witness ==
    /\ ret.op = RankCall
    /\ Len(ret.value) = 2
    /\ "match_score" \in DOMAIN ret.value[1]
    /\ Len(get_all_internships) = 2
    /\ "match_score" \notin DOMAIN get_all_internships[1]

=============================================================================
